---- MODULE Spec2Model ----
(***************************************************************************)
(* Font catalog loader (initialize_fonts) and font cache command           *)
(* (get_system_fonts) of src-tauri/src/fonts.rs, with the state installed  *)
(* by create_window in src-tauri/src/lib.rs.                               *)
(*                                                                         *)
(* A font family name is a sequence of Unicode code points.  Rust orders   *)
(* String values by their UTF-8 bytes, which is the code point order.      *)
(***************************************************************************)
EXTENDS Integers, Sequences, FiniteSets, TLC

(* ---------------------------- bounds ----------------------------------- *)
\* longest handle list the host reports when initialize_fonts is called directly
MaxHandles == 4
\* longest handle list the host reports under the concurrent cache model
MaxCacheHandles == 1
\* number of request threads dispatching get_system_fonts
NumThreads == 2
\* number of get_system_fonts calls one thread makes
MaxCalls == 2

Threads == 1..NumThreads
NoThread == 0

(* ---------------------------- names ------------------------------------ *)
Arial         == <<65, 114, 105, 97, 108>>
TimesNewRoman == <<84, 105, 109, 101, 115, 32, 78, 101, 119, 32, 82, 111, 109, 97, 110>>
Helvetica     == <<72, 101, 108, 118, 101, 116, 105, 99, 97>>
CourierNew    == <<67, 111, 117, 114, 105, 101, 114, 32, 78, 101, 119>>
Georgia       == <<71, 101, 111, 114, 103, 105, 97>>
Verdana       == <<86, 101, 114, 100, 97, 110, 97>>
Inter         == <<73, 110, 116, 101, 114>>
\* names the host may report besides fallback names
Zapfino       == <<90, 97, 112, 102, 105, 110, 111>>
\* "Ünica": U+00DC is alphabetic and not ASCII
Unica         == <<220, 110, 105, 99, 97>>
\* "★Font★": U+2605 is neither ASCII nor alphabetic
StarFont      == <<9733, 70, 111, 110, 116, 9733>>
EmptyName     == <<>>

\* the vec! literal of initialize_fonts, in its written order
fallback_fonts ==
    <<Arial, TimesNewRoman, Helvetica, CourierNew, Georgia, Verdana, Inter>>

(* ---------------------------- host ------------------------------------- *)
\* handle.load() is Err for this handle
Unresolvable == [resolves |-> FALSE, family_name |-> EmptyName]
Resolved(n)  == [resolves |-> TRUE, family_name |-> n]

HostNames == {EmptyName, StarFont, Arial, Verdana, Zapfino, Unica}
Handles   == {Unresolvable} \cup {Resolved(n) : n \in HostNames}

SeqsUpTo(S, n) == UNION {[1..k -> S] : k \in 0..n}

\* source.all_fonts(): Err, or Ok with a list of handles
EnumerationFailed == [ok |-> FALSE, fonts |-> <<>>]
Enumerated(hs)    == [ok |-> TRUE, fonts |-> hs]
HostResults(n)    == {EnumerationFailed} \cup {Enumerated(hs) : hs \in SeqsUpTo(Handles, n)}

(* ---------------------------- String / Vec operations ------------------ *)
is_ascii(c) == c <= 127

\* char::is_alphabetic (Unicode Alphabetic) on U+0000..U+00FF; the only other
\* code point of the model, U+2605, is a symbol
is_alphabetic(c) ==
    \/ c \in 65..90
    \/ c \in 97..122
    \/ c \in {170, 181, 186}
    \/ c \in 192..214
    \/ c \in 216..246
    \/ c \in 248..255

\* Ord for String: lexicographic on code points, a proper prefix is smaller
StrLess(a, b) ==
    \E i \in 1..(Len(a) + 1) :
        /\ \A j \in 1..(i - 1) : j <= Len(b) /\ a[j] = b[j]
        /\ \/ i = Len(a) + 1 /\ i <= Len(b)
           \/ i <= Len(a) /\ i <= Len(b) /\ a[i] < b[i]

RECURSIVE Insert(_, _)
Insert(x, s) ==
    IF s = <<>> THEN <<x>>
    ELSE IF StrLess(x, Head(s)) THEN <<x>> \o s
    ELSE <<Head(s)>> \o Insert(x, Tail(s))

\* Vec::sort
RECURSIVE sort(_)
sort(v) ==
    IF v = <<>> THEN <<>>
    ELSE Insert(v[Len(v)], sort(SubSeq(v, 1, Len(v) - 1)))

\* dedup left out
dedupNone(v) == v

\* Vec::dedup: drops an element equal to the one kept before it
RECURSIVE dedup(_)
dedup(v) ==
    IF Len(v) <= 1 THEN v
    ELSE LET d == dedup(SubSeq(v, 1, Len(v) - 1))
         IN  IF v[Len(v)] = d[Len(d)] THEN d ELSE Append(d, v[Len(v)])

\* Vec::contains
contains(v, x) == \E i \in 1..Len(v) : v[i] = x

(* ---------------------------- initialize_fonts ------------------------- *)
\* the filter with any() where the code has all(), and no emptiness test
ValidNameAny(name) ==
    \E i \in 1..Len(name) : is_ascii(name[i]) \/ is_alphabetic(name[i])

\* the filter of the handle loop
ValidName(name) ==
    /\ name # <<>>
    /\ \A i \in 1..Len(name) : is_ascii(name[i]) \/ is_alphabetic(name[i])

\* the handle loop: font_names after the first k handles
RECURSIVE CollectNames(_, _)
CollectNames(fonts, k) ==
    IF k = 0 THEN <<>>
    ELSE LET font_names == CollectNames(fonts, k - 1)
             handle     == fonts[k]
         IN  IF handle.resolves /\ ValidName(handle.family_name)
             THEN Append(font_names, handle.family_name)
             ELSE font_names

\* the fallback loop with its test inverted: a fallback is pushed only when
\* the list already holds it
RECURSIVE AddFallbacksInverted(_, _)
AddFallbacksInverted(font_names, k) ==
    IF k = 0 THEN font_names
    ELSE LET names == AddFallbacksInverted(font_names, k - 1)
         IN  IF contains(names, fallback_fonts[k])
             THEN Append(names, fallback_fonts[k])
             ELSE names

\* the fallback loop: font_names after the first k fallbacks
RECURSIVE AddFallbacks(_, _)
AddFallbacks(font_names, k) ==
    IF k = 0 THEN font_names
    ELSE LET names == AddFallbacks(font_names, k - 1)
         IN  IF ~contains(names, fallback_fonts[k])
             THEN Append(names, fallback_fonts[k])
             ELSE names

initialize_fonts(all_fonts) ==
    IF all_fonts.ok
    THEN LET font_names == CollectNames(all_fonts.fonts, Len(all_fonts.fonts))
         IN  IF font_names = <<>>
             THEN fallback_fonts
             ELSE sort(AddFallbacks(dedup(sort(font_names)), Len(fallback_fonts)))
    ELSE fallback_fonts

(* ---------------------------- state ------------------------------------ *)
VARIABLES
    host,          \* what source.all_fonts() yields on this machine
    state,         \* the Vec<String> inside FontState's Mutex
    lockHolder,    \* thread owning the MutexGuard, or NoThread
    poisoned,      \* poison flag of the Mutex
    pc,            \* position of each thread in get_system_fonts
    rets,          \* per thread, the results its finished calls returned
    loader_calls,  \* number of initialize_fonts executions started
    catalog        \* the list the last finished initialize_fonts returned

vars == <<host, state, lockHolder, poisoned, pc, rets, loader_calls, catalog>>

NotLoaded == [loaded |-> FALSE, fonts |-> <<>>]
Loaded(v) == [loaded |-> TRUE, fonts |-> v]

\* Result<Vec<String>, String>
Ok(v)  == [ok |-> TRUE, fonts |-> v, msg |-> ""]
Err(m) == [ok |-> FALSE, fonts |-> <<>>, msg |-> m]

\* format!("Failed to access font cache: {}", e) for a PoisonError
LockErrorMsg == "Failed to access font cache: poisoned lock: another task failed inside"

\* the vector create_window stores in FontState
initialize_empty_state == <<>>

InitCommon ==
    /\ state = initialize_empty_state
    /\ lockHolder = NoThread
    /\ poisoned = FALSE
    /\ pc = [t \in Threads |-> "idle"]
    /\ rets = [t \in Threads |-> <<>>]
    /\ loader_calls = 0
    /\ catalog = NotLoaded

(* ---------------------------- get_system_fonts ------------------------- *)
\* the command is dispatched on thread t
Invoke(t) ==
    /\ pc[t] = "idle"
    /\ Len(rets[t]) < MaxCalls
    /\ pc' = [pc EXCEPT ![t] = "lock"]
    /\ UNCHANGED <<host, state, lockHolder, poisoned, rets, loader_calls, catalog>>

\* lock() recovering the guard from a PoisonError
LockIgnorePoison(t) ==
    /\ pc[t] = "lock"
    /\ lockHolder = NoThread
    /\ lockHolder' = t
    /\ pc' = [pc EXCEPT ![t] = "ok"]
    /\ UNCHANGED <<host, state, poisoned, rets, loader_calls, catalog>>

\* state.0.lock(): blocks while another thread owns the guard; a poisoned
\* mutex hands the guard out inside the error
Lock(t) ==
    /\ pc[t] = "lock"
    /\ lockHolder = NoThread
    /\ lockHolder' = t
    /\ pc' = [pc EXCEPT ![t] = IF poisoned THEN "err" ELSE "ok"]
    /\ UNCHANGED <<host, state, poisoned, rets, loader_calls, catalog>>

\* the Ok arm with the guard dropped once the list is cloned
ReadCacheDropGuard(t) ==
    /\ pc[t] = "ok"
    /\ LET fonts == state
       IN  IF fonts = <<>>
           THEN /\ pc' = [pc EXCEPT ![t] = "init"]
                /\ loader_calls' = loader_calls + 1
                /\ UNCHANGED rets
           ELSE /\ rets' = [rets EXCEPT ![t] = Append(@, Ok(fonts))]
                /\ pc' = [pc EXCEPT ![t] = "idle"]
                /\ UNCHANGED loader_calls
    /\ lockHolder' = NoThread
    /\ UNCHANGED <<host, state, poisoned, catalog>>

\* the Ok arm up to its return or to the call of initialize_fonts; the guard
\* bound by the pattern lives to the end of the arm
ReadCache(t) ==
    /\ pc[t] = "ok"
    /\ LET fonts == state
       IN  IF fonts = <<>>
           THEN /\ pc' = [pc EXCEPT ![t] = "init"]
                /\ loader_calls' = loader_calls + 1
                /\ UNCHANGED <<lockHolder, rets>>
           ELSE /\ rets' = [rets EXCEPT ![t] = Append(@, Ok(fonts))]
                /\ pc' = [pc EXCEPT ![t] = "idle"]
                /\ lockHolder' = NoThread
                /\ UNCHANGED loader_calls
    /\ UNCHANGED <<host, state, poisoned, catalog>>

\* the loaded list written back through the guard before it is returned
FinishLoadStore(t) ==
    /\ pc[t] = "init"
    /\ LET fonts == initialize_fonts(host)
       IN  /\ catalog' = Loaded(fonts)
           /\ state' = fonts
           /\ rets' = [rets EXCEPT ![t] = Append(@, Ok(fonts))]
    /\ pc' = [pc EXCEPT ![t] = "idle"]
    /\ lockHolder' = NoThread
    /\ UNCHANGED <<host, poisoned, loader_calls>>

\* initialize_fonts returns, its list is the result and the guard is dropped
FinishLoad(t) ==
    /\ pc[t] = "init"
    /\ LET fonts == initialize_fonts(host)
       IN  /\ catalog' = Loaded(fonts)
           /\ rets' = [rets EXCEPT ![t] = Append(@, Ok(fonts))]
    /\ pc' = [pc EXCEPT ![t] = "idle"]
    /\ lockHolder' = NoThread
    /\ UNCHANGED <<host, state, poisoned, loader_calls>>

\* the Err arm
LockFailed(t) ==
    /\ pc[t] = "err"
    /\ rets' = [rets EXCEPT ![t] = Append(@, Err(LockErrorMsg))]
    /\ pc' = [pc EXCEPT ![t] = "idle"]
    /\ lockHolder' = NoThread
    /\ UNCHANGED <<host, state, poisoned, loader_calls, catalog>>

\* a panic inside the Ok arm (println!, or the font library under
\* initialize_fonts) unwinds through the guard: the mutex is poisoned and
\* released, the call returns nothing
Panic(t) ==
    /\ pc[t] \in {"ok", "init"}
    /\ poisoned' = TRUE
    /\ lockHolder' = NoThread
    /\ pc' = [pc EXCEPT ![t] = "panicked"]
    /\ UNCHANGED <<host, state, rets, loader_calls, catalog>>

Init ==
    /\ host \in HostResults(MaxCacheHandles)
    /\ InitCommon

Next ==
    \E t \in Threads :
        \/ Invoke(t)
        \/ Lock(t)
        \/ ReadCache(t)
        \/ FinishLoad(t)
        \/ LockFailed(t)
        \/ Panic(t)

Spec == Init /\ [][Next]_vars

(* ---------------------------- the loader on its own -------------------- *)
\* a direct call of the public initialize_fonts
CallInitializeFonts ==
    /\ ~catalog.loaded
    /\ catalog' = Loaded(initialize_fonts(host))
    /\ loader_calls' = loader_calls + 1
    /\ UNCHANGED <<host, state, lockHolder, poisoned, pc, rets>>

InitLoader ==
    /\ host \in HostResults(MaxHandles)
    /\ InitCommon

NextLoader == CallInitializeFonts

SpecLoader == InitLoader /\ [][NextLoader]_vars

(* ---------------------------- vocabulary of the properties ------------- *)
Range(v) == {v[i] : i \in 1..Len(v)}

FallbackSet == Range(fallback_fonts)

\* sorted ascending, no two adjacent entries equal
SortedNoAdjacentDup(v) ==
    \A i \in 1..(Len(v) - 1) : StrLess(v[i], v[i + 1])

SortedFallbacks ==
    <<Arial, CourierNew, Georgia, Helvetica, Inter, TimesNewRoman, Verdana>>

\* names of resolvable handles that pass the filter
AcceptedNames ==
    IF host.ok
    THEN {host.fonts[i].family_name : i \in
            {j \in 1..Len(host.fonts) :
                /\ host.fonts[j].resolves
                /\ host.fonts[j].family_name # <<>>
                /\ \A c \in Range(host.fonts[j].family_name) :
                      is_ascii(c) \/ is_alphabetic(c)}}
    ELSE {}

\* names of resolvable handles that the filter must reject
RejectedNames ==
    IF host.ok
    THEN {host.fonts[i].family_name : i \in
            {j \in 1..Len(host.fonts) : host.fonts[j].resolves}} \ AcceptedNames
    ELSE {}

(* ---------------------------- properties of initialize_fonts ----------- *)
\* C1: whatever the host enumeration yields, the list initialize_fonts
\* returns is sorted ascending and has no two adjacent equal entries.
C1_SortedNoAdjacentDup ==
    catalog.loaded => SortedNoAdjacentDup(catalog.fonts)

\* C2: every list initialize_fonts returns contains all seven fallback
\* names, whatever the host reports.
C2_FallbacksPresent ==
    catalog.loaded => FallbackSet \subseteq Range(catalog.fonts)

\* the host reports accepted names, none of them a fallback name
C2_Witness ==
    /\ catalog.loaded
    /\ AcceptedNames # {}
    /\ AcceptedNames \cap FallbackSet = {}

\* C3: when enumeration fails or no handle yields an accepted name, the list
\* returned is exactly the seven fallback names in ascending order.
C3_ZeroValidGivesSortedFallbacks ==
    (catalog.loaded /\ AcceptedNames = {}) => catalog.fonts = SortedFallbacks

\* C7: no list initialize_fonts returns holds an empty string or a name with
\* a character that is neither ASCII nor alphabetic; a handle with such a
\* family name contributes no entry.
C7_NoRejectedName ==
    catalog.loaded =>
        /\ \A i \in 1..Len(catalog.fonts) :
              /\ catalog.fonts[i] # <<>>
              /\ \A c \in Range(catalog.fonts[i]) : is_ascii(c) \/ is_alphabetic(c)
        /\ RejectedNames \cap Range(catalog.fonts) = {}

\* the host reports the empty name and the starred name next to an accepted one
C7_Witness ==
    /\ catalog.loaded
    /\ {EmptyName, StarFont} \subseteq RejectedNames
    /\ AcceptedNames # {}

ExampleHost == Enumerated(<<Resolved(Verdana), Resolved(Arial), Resolved(Zapfino), Resolved(Verdana)>>)

ExampleCatalog ==
    <<Arial, CourierNew, Georgia, Helvetica, Inter, TimesNewRoman, Verdana, Zapfino>>

\* C8: when at least one accepted name survives the filter, the list returned
\* is the ascending sequence of the union of the accepted names of resolvable
\* handles and the seven fallback names, each once; unresolvable handles do
\* not matter; Verdana, Arial, Zapfino, Verdana gives the documented list.
C8_SortedUnion ==
    (catalog.loaded /\ AcceptedNames # {}) =>
        /\ SortedNoAdjacentDup(catalog.fonts)
        /\ Range(catalog.fonts) = AcceptedNames \cup FallbackSet
        /\ host = ExampleHost => catalog.fonts = ExampleCatalog

\* the documented example has been loaded
C8_Witness ==
    /\ catalog.loaded
    /\ host = ExampleHost

(* ---------------------------- properties of get_system_fonts ----------- *)
\* C4: from the empty cache, two get_system_fonts calls in sequence run the
\* loader once: the first stores the catalog, the second returns the stored
\* copy, and both return equal catalogs.
C4_SecondCallUsesCache ==
    \A t \in Threads :
        ( /\ pc[t] = "idle"
          /\ Len(rets[t]) = 2
          /\ rets[t][1].ok
          /\ rets[t][2].ok
          /\ \A u \in Threads \ {t} : pc[u] = "idle" /\ rets[u] = <<>> )
        => /\ loader_calls = 1
           /\ state = rets[t][1].fonts
           /\ rets[t][1] = rets[t][2]

\* C5: when every thread calls get_system_fonts on the empty cache, all of
\* them receive the same catalog and the loader runs fewer times than there
\* are callers.
C5_RunOnce ==
    (\A t \in Threads : pc[t] = "idle" /\ Len(rets[t]) = 1 /\ rets[t][1].ok)
    => /\ \A t, u \in Threads : rets[t][1] = rets[u][1]
       /\ loader_calls < NumThreads

\* C6: once the mutex is poisoned it stays poisoned, a call that takes the
\* lock goes to the Err arm, returns the error message and no font list, and
\* the loader is not run; a later call fails the same way.
C6_PoisonSurfaced ==
    [][ poisoned =>
          /\ poisoned'
          /\ loader_calls' = loader_calls
          /\ catalog' = catalog
          /\ \A t \in Threads :
                /\ (pc[t] = "lock" /\ pc'[t] # "lock") => pc'[t] = "err"
                /\ rets'[t] # rets[t] =>
                      /\ pc[t] = "err"
                      /\ rets'[t] = Append(rets[t], Err(LockErrorMsg))
                      /\ ~rets'[t][Len(rets'[t])].ok
                      /\ rets'[t][Len(rets'[t])].fonts = <<>>
                      /\ rets'[t][Len(rets'[t])].msg # "" ]_vars

\* a thread has had two calls in a row fail on the poisoned mutex
C6_Witness ==
    /\ poisoned
    /\ \E t \in Threads :
          /\ Len(rets[t]) >= 2
          /\ rets[t][Len(rets[t]) - 1] = Err(LockErrorMsg)
          /\ rets[t][Len(rets[t])] = Err(LockErrorMsg)

\* C9: a call that locked holds the lock until it returns, through the loader
\* run it starts; no two loader runs overlap and no thread reads the cache
\* while another thread's load is in progress.
C9_LockHeldThroughLoad ==
    /\ \A t \in Threads : pc[t] \in {"ok", "init", "err"} => lockHolder = t
    /\ Cardinality({t \in Threads : pc[t] = "init"}) <= 1
    /\ \A t, u \in Threads : (t # u /\ pc[t] = "init") => pc[u] \notin {"ok", "init", "err"}

\* a load is in progress while another caller waits for the lock
C9_Witness ==
    \E t, u \in Threads : t # u /\ pc[t] = "init" /\ pc[u] = "lock"

\* C10: get_system_fonts never writes the shared list: on every path the
\* stored list is the one installed at setup.
C10_StateNeverWritten ==
    state = initialize_empty_state

\* a call has returned a loaded list and a call has returned the lock error
C10_Witness ==
    /\ \E t \in Threads : \E i \in 1..Len(rets[t]) : rets[t][i].ok
    /\ \E t \in Threads : \E i \in 1..Len(rets[t]) : ~rets[t][i].ok
    /\ state = initialize_empty_state

====
